---- MODULE Spec2Model ----
(***************************************************************************)
(* WSO2 API Shield: the batch attack-pattern pipeline                      *)
(* (src/src/day4_attack_patterns.py), the stream detector                  *)
(* (src/src/day6_stream_detector.py) and the scoring facade                *)
(* (src/src/api/app.py).                                                   *)
(*                                                                         *)
(* Timestamps are seconds, probabilities are thousandths (0.80 is 800).    *)
(* day4 writes the columns req_count_1min, unique_endpoints_1min and       *)
(* auth_fails_1min, while day6 and the facade read req_count_bucket,       *)
(* unique_endpoints_bucket and auth_fails_bucket: the enriched file day6   *)
(* reads is therefore an input of its own here, not day4's output.         *)
(* day4's summary report (lines 88-105) is not modelled.                   *)
(***************************************************************************)
EXTENDS Integers, Sequences, FiniteSets, TLC

VARIABLES
  rawExists,   \* day4: DATA_FILE.exists()
  rawLog,      \* day4: the rows of data/processed/wso2_api_logs.csv
  df,          \* day4: the DataFrame df of main()
  enriched,    \* day4: the rows written to OUT_ENRICHED
  pc4,         \* day4: position in main()
  dataFile,    \* day6: data/processed/wso2_api_logs_enriched.csv
  modelFile,   \* day6, facade: models/attack_model.pkl
  liveAlerts,  \* day6: reports/live_alerts.csv (OUT_FILE)
  df6,         \* day6: df after dropna(subset=feature_cols)
  model6,      \* day6: the loaded model
  alerts,      \* day6: the list alerts
  alertSrc,    \* day6: for each element of alerts, the row of df6 it came from
  console,     \* day6: what print_alert has printed
  idx,         \* day6: the row the loop is at
  X,           \* day6: the feature frame of the current row
  prob,        \* day6: the probability of the current row
  stopped,     \* day6: KeyboardInterrupt was caught
  stoppedAt,   \* day6: where the loop was when it was caught
  alertsAtStop,\* day6: the list alerts when it was caught
  pc6,         \* day6: position in main()
  run,         \* day6: how many times the script has been started
  firstAlerts, \* day6: the list alerts at the end of the first run
  apiPc,       \* facade: "down" or "serving"
  apiModel,    \* facade: the global model
  resp,        \* facade: the last /detect request and its response
  alertsResp   \* facade: the last /alerts response

vars4 == <<rawExists, rawLog, df, enriched, pc4>>
vars6 == <<dataFile, modelFile, liveAlerts, df6, model6, alerts, alertSrc,
           console, idx, X, prob, stopped, stoppedAt, alertsAtStop, pc6,
           run, firstAlerts>>
varsRun == <<run, firstAlerts>>
varsApi == <<apiPc, apiModel, resp, alertsResp>>
vars == <<vars4, vars6, varsApi>>

\* ------------------------------------------------------------------ bounds

MaxRows == 3
MaxBulk == 31
MaxEndpoints == 9
MaxAuthFails == 11
MaxEvents == 3
MaxSvcEvents == 2
MaxSinkEvents == 2
MaxReplayEvents == 2
MaxRuns == 2

\* --------------------------------------------------------- day4: constants

\* pd.to_datetime(errors="coerce") gives NaT for an unparsable timestamp
NaT == 0 - 1

WindowSize == 60
BURST_THRESHOLD == 30
SCAN_THRESHOLD == 8
AUTH_FAIL_THRESHOLD == 10
W_b == 30
W_s == 40
W_a == 30
RISK_THRESHOLD == 60
CLIP_LO == 0
CLIP_HI == 100

Clients == {"91.210.10.4", "10.0.0.7"}

RawRow(c, t, r, s) ==
  [client_ip |-> c, timestamp |-> t, resource |-> r, status_code |-> s]

\* The rows a small input log is made of: two clients, both sides of a minute
\* boundary, two endpoints, statuses 200/401/403, and an unparsable timestamp.
RawRows ==
  {RawRow(c, t, rs[1], rs[2]) :
      c \in Clients, t \in {59, 60}, rs \in {<<1, 200>>, <<2, 401>>}}
  \cup {RawRow("91.210.10.4", 0, 1, 403), RawRow("91.210.10.4", NaT, 2, 200)}

SmallLogs == UNION {[1..n -> RawRows] : n \in 0..MaxRows}

\* One client, one minute: n requests over e endpoints, the first a of them
\* answered 401.
Bulk(n, e, a) ==
  [i \in 1..n |->
     RawRow("91.210.10.4", i - 1, ((i - 1) % e) + 1,
            IF i <= a THEN 401 ELSE 200)]

BulkLogs ==
  {Bulk(n, e, a) : n \in 1..MaxBulk, e \in 1..MaxEndpoints, a \in 0..MaxAuthFails}

\* ------------------------------------------------------- day4: the pipeline

SetMin(S) == CHOOSE x \in S : \A y \in S : x <= y

\* sort_values("timestamp"): every order of the rows that ascends in timestamp
\* (the default quicksort leaves the order of equal timestamps open).
RECURSIVE SortedOrders(_, _)
SortedOrders(rows, S) ==
  IF S = {} THEN {<<>>}
  ELSE LET m == SetMin({rows[i].timestamp : i \in S})
           C == {i \in S : rows[i].timestamp = m}
       IN UNION {{<<rows[i]>> \o t : t \in SortedOrders(rows, S \ {i})} : i \in C}

\* dropna(subset=["timestamp"])
DropNaT(rows) == SelectSeq(rows, LAMBDA r : r.timestamp # NaT)

\* dt.floor("min")
FloorMin(t) == t - (t % WindowSize)

\* mutant: grouped by minute_bucket alone, the client forgotten
SameGroup_ByMinute(d, i, j) == d[i].minute_bucket = d[j].minute_bucket

SameGroup(d, i, j) ==
  /\ d[i].client_ip = d[j].client_ip
  /\ d[i].minute_bucket = d[j].minute_bucket

Group(d, i) == {j \in 1..Len(d) : SameGroup(d, i, j)}

\* mutant: a running count, the rows of the group up to row i
ReqPerIpMin_Running(d, i) == Cardinality({j \in Group(d, i) : j <= i})

\* groupby(["client_ip","minute_bucket"]).size(), merged back on the keys
ReqPerIpMin(d, i) == Cardinality(Group(d, i))

\* mutant: grouped by client_ip alone, the minute bucket forgotten
UniqEndpoints_ByClient(d, i) ==
  Cardinality({d[j].resource :
                 j \in {k \in 1..Len(d) : d[k].client_ip = d[i].client_ip}})

\* groupby(...)["resource"].nunique(), merged back on the keys
UniqEndpoints(d, i) == Cardinality({d[j].resource : j \in Group(d, i)})

\* status_code.isin([401, 403])
AuthFail(s) == IF s \in {401, 403} THEN 1 ELSE 0

\* groupby(...)["auth_fail"].sum(), merged back on the keys
AuthFailCounts(d, i) == Cardinality({j \in Group(d, i) : d[j].auth_fail = 1})

\* mutant: > in place of >=
BurstFlag_Strict(n) == IF n > BURST_THRESHOLD THEN 1 ELSE 0

\* mutant: the threshold of the other scheme
ScanFlag_Five(n) == IF n >= 5 THEN 1 ELSE 0

BurstFlag(n) == IF n >= BURST_THRESHOLD THEN 1 ELSE 0
ScanFlag(n) == IF n >= SCAN_THRESHOLD THEN 1 ELSE 0
AuthAbuseFlag(n) == IF n >= AUTH_FAIL_THRESHOLD THEN 1 ELSE 0

Clip(x, lo, hi) == IF x < lo THEN lo ELSE IF x > hi THEN hi ELSE x

\* the weighted sum of the flags, clipped
RiskScoreWith(b, s, a, wb, ws, wa) ==
  Clip(b * wb + s * ws + a * wa, CLIP_LO, CLIP_HI)

\* mutant: the weight of burst_flag 60 in place of 30
RiskScore_Heavy(b, s, a) == RiskScoreWith(b, s, a, 60, W_s, W_a)

RiskScore(b, s, a) == RiskScoreWith(b, s, a, W_b, W_s, W_a)

\* mutant: <= in place of >=
AttackDetectedAt_Below(score, t) == IF score <= t THEN 1 ELSE 0

\* (attack_risk_score >= t).astype(int)
AttackDetectedAt(score, t) == IF score >= t THEN 1 ELSE 0

AttackDetected(score) == AttackDetectedAt(score, RISK_THRESHOLD)

\* df[col] = vals, row by row
WithCol(d, col, vals) == [k \in 1..Len(d) |-> (col :> vals[k]) @@ d[k]]

Day4_CheckData ==
  /\ pc4 = "start"
  /\ pc4' = IF rawExists THEN "read" ELSE "returned"
  /\ UNCHANGED <<rawExists, rawLog, df, enriched>>
  /\ UNCHANGED <<vars6, varsApi>>

Day4_ReadCsv ==
  /\ pc4 = "read"
  /\ LET kept == DropNaT(rawLog)
     IN \E s \in SortedOrders(kept, 1..Len(kept)) : df' = s
  /\ pc4' = "bucket"
  /\ UNCHANGED <<rawExists, rawLog, enriched>>
  /\ UNCHANGED <<vars6, varsApi>>

Day4_MinuteBucket ==
  /\ pc4 = "bucket"
  /\ df' = WithCol(df, "minute_bucket",
                   [k \in 1..Len(df) |-> FloorMin(df[k].timestamp)])
  /\ pc4' = "burst"
  /\ UNCHANGED <<rawExists, rawLog, enriched>>
  /\ UNCHANGED <<vars6, varsApi>>

Day4_Burst ==
  /\ pc4 = "burst"
  /\ LET d1 == WithCol(df, "req_count_1min",
                       [k \in 1..Len(df) |-> ReqPerIpMin(df, k)])
     IN df' = WithCol(d1, "burst_flag",
                      [k \in 1..Len(d1) |-> BurstFlag(d1[k].req_count_1min)])
  /\ pc4' = "scan"
  /\ UNCHANGED <<rawExists, rawLog, enriched>>
  /\ UNCHANGED <<vars6, varsApi>>

Day4_Scan ==
  /\ pc4 = "scan"
  /\ LET d1 == WithCol(df, "unique_endpoints_1min",
                       [k \in 1..Len(df) |-> UniqEndpoints(df, k)])
     IN df' = WithCol(d1, "scan_flag",
                      [k \in 1..Len(d1) |-> ScanFlag(d1[k].unique_endpoints_1min)])
  /\ pc4' = "auth"
  /\ UNCHANGED <<rawExists, rawLog, enriched>>
  /\ UNCHANGED <<vars6, varsApi>>

Day4_AuthAbuse ==
  /\ pc4 = "auth"
  /\ LET d1 == WithCol(df, "auth_fail",
                       [k \in 1..Len(df) |-> AuthFail(df[k].status_code)])
         d2 == WithCol(d1, "auth_fails_1min",
                       [k \in 1..Len(d1) |-> AuthFailCounts(d1, k)])
     IN df' = WithCol(d2, "auth_abuse_flag",
                      [k \in 1..Len(d2) |-> AuthAbuseFlag(d2[k].auth_fails_1min)])
  /\ pc4' = "risk"
  /\ UNCHANGED <<rawExists, rawLog, enriched>>
  /\ UNCHANGED <<vars6, varsApi>>

Day4_RiskScore ==
  /\ pc4 = "risk"
  /\ LET d1 == WithCol(df, "attack_risk_score",
                       [k \in 1..Len(df) |->
                          RiskScore(df[k].burst_flag, df[k].scan_flag,
                                    df[k].auth_abuse_flag)])
     IN df' = WithCol(d1, "attack_detected",
                      [k \in 1..Len(d1) |-> AttackDetected(d1[k].attack_risk_score)])
  /\ pc4' = "save"
  /\ UNCHANGED <<rawExists, rawLog, enriched>>
  /\ UNCHANGED <<vars6, varsApi>>

Day4_Save ==
  /\ pc4 = "save"
  /\ enriched' = df
  /\ pc4' = "done"
  /\ UNCHANGED <<rawExists, rawLog, df>>
  /\ UNCHANGED <<vars6, varsApi>>


\* ------------------------------------------------------------ day4: claims

AfterBurst == pc4 \in {"scan", "auth", "risk", "save", "done"}
AfterAuth == pc4 \in {"risk", "save", "done"}
AfterRisk == pc4 \in {"save", "done"}

\* rows j and k have the same WindowKey
SameWindowKey(j, k) ==
  /\ df[j].client_ip = df[k].client_ip
  /\ df[j].timestamp \div WindowSize = df[k].timestamp \div WindowSize

\* the rows of k's WindowKey, and those of them up to row k
WindowTotal(k) == Cardinality({j \in 1..Len(df) : SameWindowKey(j, k)})
WindowOrdinal(k) == Cardinality({j \in 1..k : SameWindowKey(j, k)})

\* C1 as stated: the k-th event of a (client, window) carries the count k, the
\* events observed so far and none that follow.
C1_RunningCount ==
  AfterBurst => \A k \in 1..Len(df) : df[k].req_count_1min = WindowOrdinal(k)

\* C1 amended: every event of a (client, window) carries the total N of the
\* window's events in the batch, the N-th and every earlier one alike.
C1_WindowTotal ==
  AfterBurst => \A k \in 1..Len(df) : df[k].req_count_1min = WindowTotal(k)

C1_Witness ==
  /\ pc4 = "done"
  /\ \E j, k \in 1..Len(df) :
       j < k /\ SameWindowKey(j, k) /\ df[j].req_count_1min = 2
  /\ \E j, k \in 1..Len(df) : ~SameWindowKey(j, k)

\* C2: for every WindowKey, request count >= distinct endpoints >= 0 and
\* request count >= auth failures >= 0.
C2_CounterOrder ==
  AfterAuth =>
    \A k \in 1..Len(df) :
      /\ df[k].req_count_1min >= df[k].unique_endpoints_1min
      /\ df[k].unique_endpoints_1min >= 0
      /\ df[k].req_count_1min >= df[k].auth_fails_1min
      /\ df[k].auth_fails_1min >= 0

C2_Witness ==
  /\ pc4 = "done"
  /\ \E k \in 1..Len(df) :
       /\ df[k].unique_endpoints_1min = 2
       /\ df[k].auth_fails_1min >= 1
       /\ df[k].req_count_1min > df[k].unique_endpoints_1min

Flag(b) == IF b THEN 1 ELSE 0

Scenario(n, e, a) ==
  /\ rawExists
  /\ rawLog = Bulk(n, e, a)
  /\ pc4 = "done"
  /\ Len(enriched) = n

Outcome(r) ==
  <<r.burst_flag, r.scan_flag, r.auth_abuse_flag, r.attack_risk_score,
    r.attack_detected>>

RiskThresholds == {0, 1, 30, 31, 40, 41, 60, 61, 70, 71, 100, 101}

\* C15: with the risk score of an event fixed, raising the cutoff never turns
\* attack_detected from 0 to 1; the code's attack_detected is the one at 60.
C15_Monotone ==
  AfterRisk =>
    \A k \in 1..Len(df) :
      /\ df[k].attack_detected =
           AttackDetectedAt(df[k].attack_risk_score, RISK_THRESHOLD)
      /\ \A t1, t2 \in RiskThresholds :
           (t1 <= t2 /\ AttackDetectedAt(df[k].attack_risk_score, t1) = 0) =>
             AttackDetectedAt(df[k].attack_risk_score, t2) = 0

\* an event of score 70 is detected at the cutoff 60 and no longer at 71
C15_Witness ==
  /\ pc4 = "done"
  /\ \E k \in 1..Len(df) :
       /\ df[k].attack_risk_score = 70
       /\ df[k].attack_detected = 1
       /\ AttackDetectedAt(df[k].attack_risk_score, 70) = 1
       /\ AttackDetectedAt(df[k].attack_risk_score, 71) = 0

\* ------------------------------------------------------- C16: the frame

\* d without its row j, and the place of row k of d in it
Without(d, j) == SubSeq(d, 1, j - 1) \o SubSeq(d, j + 1, Len(d))
PlaceWithout(j, k) == IF j < k THEN k - 1 ELSE k

\* d with its rows j and j+1 exchanged, and the place of row k of d in it
Swapped(d, j) ==
  [i \in 1..Len(d) |-> IF i = j THEN d[j + 1] ELSE IF i = j + 1 THEN d[j] ELSE d[i]]
PlaceSwapped(j, k) == IF k = j THEN j + 1 ELSE IF k = j + 1 THEN j ELSE k

\* the three counters the groupby gives row k of d
CountersOf(d, k) ==
  <<ReqPerIpMin(d, k), UniqEndpoints(d, k), AuthFailCounts(d, k)>>

\* the three counters row k carries
CountersAt(k) ==
  <<df[k].req_count_1min, df[k].unique_endpoints_1min, df[k].auth_fails_1min>>

\* C16: an event of client A in window w counts only for the key (A, w): the
\* counters of an event of another client, or of another window of A, are
\* those of the log without it, and exchanging two neighbouring events of
\* different clients changes the counters of no event.
C16_Frame ==
  AfterAuth =>
    /\ \A k \in 1..Len(df) : CountersAt(k) = CountersOf(df, k)
    /\ \A j, k \in 1..Len(df) :
         ~SameWindowKey(j, k) =>
           CountersOf(Without(df, j), PlaceWithout(j, k)) = CountersAt(k)
    /\ \A j \in 1..(Len(df) - 1) :
         df[j].client_ip # df[j + 1].client_ip =>
           \A k \in 1..Len(df) :
             CountersOf(Swapped(df, j), PlaceSwapped(j, k)) = CountersAt(k)

\* three events: two of one client in two windows, and one of the other
\* client in the window of the second, next to it
C16_Witness ==
  /\ pc4 = "done"
  /\ Len(df) = 3
  /\ df[1].client_ip = df[2].client_ip
  /\ df[1].timestamp = 59
  /\ df[2].timestamp = 60
  /\ df[3].client_ip # df[2].client_ip
  /\ df[3].timestamp = 60
  /\ df[3].status_code = 401
  /\ CountersAt(2) = <<1, 1, 0>>
  /\ CountersAt(3) = <<1, 1, 1>>

\* ------------------------------------------------ C17: two flags of three

\* C17: with the weights 30/40/30 and the cutoff 60 of the code, and equally
\* with 40/35/25 and 50, attack_detected is 1 exactly when at least two of the
\* three flags are set, and the clip leaves the weighted sum as it is.
C17_TwoOfThree ==
  AfterRisk =>
    \A k \in 1..Len(df) :
      LET b == df[k].burst_flag
          s == df[k].scan_flag
          a == df[k].auth_abuse_flag
      IN /\ df[k].attack_detected = Flag(b + s + a >= 2)
         /\ df[k].attack_risk_score = b * 30 + s * 40 + a * 30
         /\ AttackDetectedAt(RiskScoreWith(b, s, a, 40, 35, 25), 50)
              = Flag(b + s + a >= 2)
         /\ RiskScoreWith(b, s, a, 40, 35, 25) = b * 40 + s * 35 + a * 25

\* a burst alone, at score 30, is not detected
C17_Witness ==
  /\ pc4 = "done"
  /\ \E k \in 1..Len(df) :
       /\ Outcome(df[k]) = <<1, 0, 0, 30, 0>>
       /\ RiskScoreWith(1, 0, 0, 40, 35, 25) = 40

\* ------------------------------------------------- day6: the stream detector

ALERT_THRESHOLD == 800
BLOCK_BAND == 950
THROTTLE_BAND == 850

\* a missing value of a feature column
NaN == 0 - 1

\* a value of a numeric feature column that is no number, such as "abc"
Unparsable == 0 - 2

\* The columns of a row that vary here; api_name, http_method, payload_size, the
\* three bucket counters and the three flags are the same in every row.
EnrichedRow(t, c, r, s, l, k) ==
  [timestamp |-> t, client_ip |-> c, resource |-> r, status_code |-> s,
   latency_ms |-> l, attack_risk_score |-> k]

BenignRow(c) == EnrichedRow(0, c, 1, 200, 220, 0)
AttackRow(c) == EnrichedRow(60, c, 2, 401, 900, 100)

EnrichedRows ==
  {BenignRow("10.0.0.7")} \cup {AttackRow(c) : c \in Clients}
  \cup {EnrichedRow(0, "10.0.0.7", 1, 200, NaN, 0)}
  \cup {EnrichedRow(0, "91.210.10.4", 1, 200, Unparsable, 0)}

\* feature_cols, without the columns that are the same in every row
FeatureCols == {"resource", "status_code", "latency_ms", "attack_risk_score"}

\* the three window counters as feature_cols names them
BucketCols == {"req_count_bucket", "unique_endpoints_bucket", "auth_fails_bucket"}

\* the three window counters as day4 names them in the enriched file
MinuteCols == {"req_count_1min", "unique_endpoints_1min", "auth_fails_1min"}

\* the header of an enriched file the detector can read, and of the one day4
\* writes
DetectorHeader == FeatureCols \cup BucketCols
Day4Header == FeatureCols \cup MinuteCols

\* row[feature_cols].to_dict()
Features(row) == [c \in FeatureCols |-> row[c]]

\* dropna(subset=feature_cols)
DropNa(rows) ==
  SelectSeq(rows, LAMBDA r : \A c \in FeatureCols : r[c] # NaN)

\* a feature vector the pipeline can convert to floats
Numeric(x) == \A c \in FeatureCols : x[c] # Unparsable

FeatureVecs ==
  {x \in {Features(r) : r \in {q \in EnrichedRows : DropNa(<<q>>) # <<>>}} :
     Numeric(x)}

Probs == {0, 700, 799, 800, 850, 950}

\* The trained pipeline is opaque: any function of the feature vector.
Classifiers == [FeatureVecs -> Probs]

NoClassifier == [f \in FeatureVecs |-> 0]

\* model.predict_proba(X)[0][1]
PredictProba(m, x) == m[x]

\* print_alert's suggestion
PrintedAction(p) ==
  IF p >= 950 THEN "BLOCK IP + Revoke Token"
  ELSE IF p >= 850 THEN "Throttling Policy (429) + Step-up Auth"
  ELSE "Monitor + Rate Limit temporarily"

\* mutant: > in place of >= at the BLOCK band
SuggestedAction_Strict(p) ==
  IF p > BLOCK_BAND THEN "BLOCK"
  ELSE IF p >= THROTTLE_BAND THEN "THROTTLE"
  ELSE "MONITOR"

\* the suggested_action of an alert
SuggestedAction(p) ==
  IF p >= BLOCK_BAND THEN "BLOCK"
  ELSE IF p >= THROTTLE_BAND THEN "THROTTLE"
  ELSE "MONITOR"

\* mutant: the alert stamped with the time of detection, as /detect stamps
\* its answer, in place of the time of the event
Alert_Stamped(row, p) ==
  [timestamp |-> row.timestamp + run, client_ip |-> row.client_ip,
   resource |-> row.resource, status_code |-> row.status_code,
   risk_score |-> row.attack_risk_score, ml_probability |-> p,
   suggested_action |-> SuggestedAction(p)]

\* the dict appended to alerts
Alert(row, p) ==
  [timestamp |-> row.timestamp, client_ip |-> row.client_ip,
   resource |-> row.resource, status_code |-> row.status_code,
   risk_score |-> row.attack_risk_score, ml_probability |-> p,
   suggested_action |-> SuggestedAction(p)]

\* mutant: > in place of >=
IsAlert_Strict(p) == p > ALERT_THRESHOLD

\* prob >= ALERT_THRESHOLD
IsAlert(p) == p >= ALERT_THRESHOLD

\* mutant: insert(0, ...) in place of append
AppendAlert_Front(list, a) == <<a>> \o list

\* alerts.append(...)
AppendAlert(list, a) == Append(list, a)

LoopPcs == {"loop", "classify", "test", "announce", "append", "sleep"}

Day6_CheckData ==
  /\ pc6 = "start"
  /\ pc6' = IF dataFile.exists THEN "checkmodel" ELSE "returned"
  /\ UNCHANGED <<dataFile, modelFile, liveAlerts, df6, model6, alerts, alertSrc,
                 console, idx, X, prob, stopped, stoppedAt, alertsAtStop>>
  /\ UNCHANGED <<vars4, varsApi, varsRun>>

Day6_CheckModel ==
  /\ pc6 = "checkmodel"
  /\ pc6' = IF modelFile.exists THEN "load" ELSE "returned"
  /\ UNCHANGED <<dataFile, modelFile, liveAlerts, df6, model6, alerts, alertSrc,
                 console, idx, X, prob, stopped, stoppedAt, alertsAtStop>>
  /\ UNCHANGED <<vars4, varsApi, varsRun>>

\* dropna raises KeyError when a name of feature_cols is no column of df
Day6_Load ==
  /\ pc6 = "load"
  /\ model6' = modelFile.clf
  /\ IF FeatureCols \cup BucketCols \subseteq dataFile.cols
       THEN /\ df6' = DropNa(dataFile.rows)
            /\ pc6' = "loop"
       ELSE /\ df6' = dataFile.rows
            /\ pc6' = "crashed"
  /\ alerts' = <<>>
  /\ idx' = 1
  /\ UNCHANGED <<dataFile, modelFile, liveAlerts, alertSrc, console, X, prob,
                 stopped, stoppedAt, alertsAtStop>>
  /\ UNCHANGED <<vars4, varsApi, varsRun>>

Day6_NextRow ==
  /\ pc6 = "loop"
  /\ IF idx <= Len(df6)
       THEN /\ X' = Features(df6[idx])
            /\ pc6' = "classify"
       ELSE /\ pc6' = "save"
            /\ UNCHANGED X
  /\ UNCHANGED <<dataFile, modelFile, liveAlerts, df6, model6, alerts, alertSrc,
                 console, idx, prob, stopped, stoppedAt, alertsAtStop>>
  /\ UNCHANGED <<vars4, varsApi, varsRun>>

\* predict_proba raises ValueError on a value it cannot convert to a float;
\* the try statement catches KeyboardInterrupt only
Day6_Classify ==
  /\ pc6 = "classify"
  /\ IF Numeric(X)
       THEN /\ prob' = PredictProba(model6, X)
            /\ pc6' = "test"
       ELSE /\ prob' = prob
            /\ pc6' = "crashed"
  /\ UNCHANGED <<dataFile, modelFile, liveAlerts, df6, model6, alerts, alertSrc,
                 console, idx, X, stopped, stoppedAt, alertsAtStop>>
  /\ UNCHANGED <<vars4, varsApi, varsRun>>

Day6_Test ==
  /\ pc6 = "test"
  /\ IF IsAlert(prob)
       THEN pc6' = "announce"
       ELSE pc6' = "sleep"
  /\ UNCHANGED <<dataFile, modelFile, liveAlerts, df6, model6, alerts, alertSrc,
                 console, idx, X, prob, stopped, stoppedAt, alertsAtStop>>
  /\ UNCHANGED <<vars4, varsApi, varsRun>>

Day6_PrintAlert ==
  /\ pc6 = "announce"
  /\ console' = Append(console, [row |-> idx, action |-> PrintedAction(prob)])
  /\ pc6' = "append"
  /\ UNCHANGED <<dataFile, modelFile, liveAlerts, df6, model6, alerts, alertSrc,
                 idx, X, prob, stopped, stoppedAt, alertsAtStop>>
  /\ UNCHANGED <<vars4, varsApi, varsRun>>

Day6_Append ==
  /\ pc6 = "append"
  /\ alerts' = AppendAlert(alerts, Alert(df6[idx], prob))
  /\ alertSrc' = AppendAlert(alertSrc, idx)
  /\ pc6' = "sleep"
  /\ UNCHANGED <<dataFile, modelFile, liveAlerts, df6, model6, console, idx, X,
                 prob, stopped, stoppedAt, alertsAtStop>>
  /\ UNCHANGED <<vars4, varsApi, varsRun>>

Day6_Sleep ==
  /\ pc6 = "sleep"
  /\ idx' = idx + 1
  /\ pc6' = "loop"
  /\ UNCHANGED <<dataFile, modelFile, liveAlerts, df6, model6, alerts, alertSrc,
                 console, X, prob, stopped, stoppedAt, alertsAtStop>>
  /\ UNCHANGED <<vars4, varsApi, varsRun>>

\* mutant: the interrupt is swallowed and the loop goes on
AfterInterrupt_Resume(at) == at

\* where the except clause leaves main(): at the statements after the try
AfterInterrupt(at) == "save"

\* mutant: the accumulated alerts are discarded on a stop
KeptAlerts_Discarded(list) == <<>>

\* the list alerts after the except clause: as it was
KeptAlerts(list) == list

\* KeyboardInterrupt inside the try block: raised wherever the loop is, caught by
\* the except clause.
Day6_Interrupt ==
  /\ pc6 \in LoopPcs
  /\ stopped' = TRUE
  /\ stoppedAt' = pc6
  /\ alerts' = KeptAlerts(alerts)
  /\ alertsAtStop' = alerts
  /\ pc6' = AfterInterrupt(pc6)
  /\ UNCHANGED <<dataFile, modelFile, liveAlerts, df6, model6, alertSrc,
                 console, idx, X, prob>>
  /\ UNCHANGED <<vars4, varsApi, varsRun>>

\* mutant: to_csv(OUT_FILE, mode="a"), the rows added to those of the file
WrittenAlerts_Append(list, old) ==
  IF list # <<>> THEN [exists |-> TRUE, rows |-> old.rows \o list] ELSE old

\* alert_df.to_csv(OUT_FILE, index=False): the file is written anew
WrittenAlerts(list, old) ==
  IF list # <<>> THEN [exists |-> TRUE, rows |-> list] ELSE old

Day6_Save ==
  /\ pc6 = "save"
  /\ liveAlerts' = WrittenAlerts(alerts, liveAlerts)
  /\ pc6' = "done"
  /\ UNCHANGED <<dataFile, modelFile, df6, model6, alerts, alertSrc, console, idx,
                 X, prob, stopped, stoppedAt, alertsAtStop>>
  /\ UNCHANGED <<vars4, varsApi, varsRun>>

\* KeyboardInterrupt outside the try block ends the process; during to_csv it
\* leaves the file as far as it was written.
Day6_Kill ==
  /\ pc6 \in {"start", "checkmodel", "load", "save"}
  /\ pc6' = "killed"
  /\ IF pc6 = "save" /\ alerts # <<>>
       THEN \E k \in 0..Len(alerts) :
              liveAlerts' \in {liveAlerts,
                               [exists |-> TRUE, rows |-> SubSeq(alerts, 1, k)]}
       ELSE UNCHANGED liveAlerts
  /\ UNCHANGED <<dataFile, modelFile, df6, model6, alerts, alertSrc, console, idx,
                 X, prob, stopped, stoppedAt, alertsAtStop>>
  /\ UNCHANGED <<vars4, varsApi, varsRun>>

\* The script is started again on the same files after a run that went through
\* the whole file: a new process, whose memory and output start empty.
Day6_Replay ==
  /\ pc6 = "done"
  /\ ~stopped
  /\ run < MaxRuns
  /\ run' = run + 1
  /\ firstAlerts' = IF run = 1 THEN alerts ELSE firstAlerts
  /\ df6' = <<>>
  /\ model6' = NoClassifier
  /\ alerts' = <<>>
  /\ alertSrc' = <<>>
  /\ console' = <<>>
  /\ idx' = 1
  /\ X' = Features(BenignRow("10.0.0.7"))
  /\ prob' = 0
  /\ pc6' = "start"
  /\ UNCHANGED <<dataFile, modelFile, liveAlerts, stopped, stoppedAt, alertsAtStop>>
  /\ UNCHANGED <<vars4, varsApi>>

\* --------------------------------------------------- facade: src/api/app.py

PREDICTED_CUTOFF == 500
API_BLOCK_BAND == 950
API_THROTTLE_BAND == 850
API_MONITOR_BAND == 700

\* mutant: the THROTTLE band of /detect from 0.90 in place of 0.85
ApiAction_Late(p) ==
  IF p >= API_BLOCK_BAND THEN "BLOCK_IP_AND_REVOKE_TOKEN"
  ELSE IF p >= 900 THEN "THROTTLE_AND_STEPUP_AUTH"
  ELSE IF p >= API_MONITOR_BAND THEN "TEMP_RATE_LIMIT_MONITOR"
  ELSE "ALLOW"

\* the suggested action of /detect
ApiAction(p) ==
  IF p >= API_BLOCK_BAND THEN "BLOCK_IP_AND_REVOKE_TOKEN"
  ELSE IF p >= API_THROTTLE_BAND THEN "THROTTLE_AND_STEPUP_AUTH"
  ELSE IF p >= API_MONITOR_BAND THEN "TEMP_RATE_LIMIT_MONITOR"
  ELSE "ALLOW"

\* the response of /detect when model is None
NotLoadedResponse ==
  [attack_probability |-> 0, predicted_attack |-> FALSE,
   suggested_action |-> "MODEL_NOT_LOADED", model_version |-> "none"]

\* mutant: no guard for a missing model, the request scored as probability 0
DetectResponse_NoGuard(m, req) ==
  LET p == PredictProba(m.clf, req)
  IN [attack_probability |-> p, predicted_attack |-> (p >= PREDICTED_CUTOFF),
      suggested_action |-> ApiAction(p), model_version |-> "attack_model.pkl"]

DetectResponse(m, req) ==
  IF ~m.loaded THEN NotLoadedResponse
  ELSE LET p == PredictProba(m.clf, req)
       IN [attack_probability |-> p, predicted_attack |-> (p >= PREDICTED_CUTOFF),
           suggested_action |-> ApiAction(p), model_version |-> "attack_model.pkl"]

NoResp == [called |-> FALSE, req |-> Features(BenignRow("10.0.0.7")),
           body |-> NotLoadedResponse]

Api_Startup ==
  /\ apiPc = "down"
  /\ apiModel' = IF modelFile.exists
                   THEN [loaded |-> TRUE, clf |-> modelFile.clf]
                   ELSE [loaded |-> FALSE, clf |-> NoClassifier]
  /\ apiPc' = "serving"
  /\ UNCHANGED <<resp, alertsResp>>
  /\ UNCHANGED <<vars4, vars6>>

Api_Detect ==
  /\ apiPc = "serving"
  /\ \E req \in FeatureVecs :
       resp' = [called |-> TRUE, req |-> req, body |-> DetectResponse(apiModel, req)]
  /\ UNCHANGED <<apiPc, apiModel, alertsResp>>
  /\ UNCHANGED <<vars4, vars6>>

\* df.tail(limit)
LastRows(rows, limit) ==
  IF Len(rows) <= limit THEN rows
  ELSE SubSeq(rows, Len(rows) - limit + 1, Len(rows))

\* the limit parameter of /alerts
Limits == {1, 2}

NoFileMessage == "No live_alerts.csv found. Run Day 6 streaming first."

NoAlertsResp == [called |-> FALSE, total_alerts |-> 0, alerts |-> <<>>, message |-> ""]

\* what get_alerts returns; the answer without a file has no total_alerts, the
\* other no message
AlertsResponse(file, limit) ==
  IF ~file.exists
    THEN [called |-> TRUE, total_alerts |-> 0, alerts |-> <<>>,
          message |-> NoFileMessage]
    ELSE [called |-> TRUE, total_alerts |-> Len(LastRows(file.rows, limit)),
          alerts |-> LastRows(file.rows, limit), message |-> ""]

Api_GetAlerts ==
  /\ apiPc = "serving"
  /\ \E limit \in Limits : alertsResp' = AlertsResponse(liveAlerts, limit)
  /\ UNCHANGED <<apiPc, apiModel, resp>>
  /\ UNCHANGED <<vars4, vars6>>

\* ------------------------------------------------------------- specifications

Idle4 ==
  /\ rawExists = FALSE
  /\ rawLog = <<>>
  /\ df = <<>>
  /\ enriched = <<>>
  /\ pc4 = "start"

Idle6 ==
  /\ dataFile = [exists |-> FALSE, cols |-> {}, rows |-> <<>>]
  /\ modelFile = [exists |-> FALSE, clf |-> NoClassifier]
  /\ liveAlerts = [exists |-> FALSE, rows |-> <<>>]
  /\ df6 = <<>>
  /\ model6 = NoClassifier
  /\ alerts = <<>>
  /\ alertSrc = <<>>
  /\ console = <<>>
  /\ idx = 1
  /\ X = Features(BenignRow("10.0.0.7"))
  /\ prob = 0
  /\ stopped = FALSE
  /\ stoppedAt = "none"
  /\ alertsAtStop = <<>>
  /\ pc6 = "start"
  /\ run = 1
  /\ firstAlerts = <<>>

IdleApi ==
  /\ apiPc = "down"
  /\ apiModel = [loaded |-> FALSE, clf |-> NoClassifier]
  /\ resp = NoResp
  /\ alertsResp = NoAlertsResp

\* an alert log left by an earlier run
OldAlerts == <<Alert(AttackRow("10.0.0.7"), 950)>>

EnrichedFiles(maxn) == UNION {[1..n -> EnrichedRows] : n \in 0..maxn}

Start6(maxn) ==
  /\ Idle4
  /\ IdleApi
  /\ run = 1
  /\ dataFile \in {[exists |-> FALSE, cols |-> {}, rows |-> <<>>]}
                  \cup {[exists |-> TRUE, cols |-> DetectorHeader, rows |-> r] :
                          r \in EnrichedFiles(maxn)}
                  \cup {[exists |-> TRUE, cols |-> Day4Header, rows |-> r] :
                          r \in EnrichedFiles(1)}
  /\ modelFile \in {[exists |-> FALSE, clf |-> NoClassifier]}
                   \cup {[exists |-> TRUE, clf |-> c] : c \in Classifiers}
  /\ liveAlerts \in {[exists |-> FALSE, rows |-> <<>>],
                     [exists |-> TRUE, rows |-> OldAlerts]}
  /\ df6 = <<>>
  /\ model6 = NoClassifier
  /\ alerts = <<>>
  /\ alertSrc = <<>>
  /\ console = <<>>
  /\ idx = 1
  /\ X = Features(BenignRow("10.0.0.7"))
  /\ prob = 0
  /\ stopped = FALSE
  /\ stoppedAt = "none"
  /\ alertsAtStop = <<>>
  /\ pc6 = "start"
  /\ firstAlerts = <<>>

Init6 == Start6(MaxEvents)

InitService == Start6(MaxSvcEvents)

InitSink == Start6(MaxSinkEvents)

InitReplay == Start6(MaxReplayEvents)

Next6 ==
  \/ Day6_CheckData
  \/ Day6_CheckModel
  \/ Day6_Load
  \/ Day6_NextRow
  \/ Day6_Classify
  \/ Day6_Test
  \/ Day6_PrintAlert
  \/ Day6_Append
  \/ Day6_Sleep
  \/ Day6_Interrupt
  \/ Day6_Save
  \/ Day6_Kill

NextApi ==
  \/ Api_Startup
  \/ Api_Detect

\* ------------------------------------------------ day6 and facade: claims

\* the probability the loaded model gives row j of df6
ProbOf(j) ==
  IF Features(df6[j]) \in FeatureVecs
    THEN PredictProba(model6, Features(df6[j])) ELSE NaN

\* row j has been through the threshold test, and the append behind it
Processed(j) ==
  \/ j < idx
  \/ j = idx /\ (pc6 = "sleep" \/ (stopped /\ stoppedAt = "sleep"))

\* the alerts that row j generated
AlertCount(j) == Cardinality({k \in 1..Len(alertSrc) : alertSrc[k] = j})

\* C5: a processed event has exactly one Alert if its probability is at least
\* ALERT_THRESHOLD (0.80) and none otherwise.
C5_AlertIffThreshold ==
  /\ Len(alerts) = Len(alertSrc)
  /\ \A j \in 1..Len(df6) :
       AlertCount(j) = IF Processed(j) /\ ProbOf(j) >= 800 THEN 1 ELSE 0

C5_Witness ==
  \E j, k \in 1..Len(df6) :
    /\ Processed(j) /\ ProbOf(j) = 800 /\ AlertCount(j) = 1
    /\ Processed(k) /\ ProbOf(k) = 799 /\ AlertCount(k) = 0

\* the action the specification's bands name
BandAction(p) ==
  IF p >= 950 THEN "BLOCK_IP_AND_REVOKE_TOKEN"
  ELSE IF p >= 850 THEN "THROTTLE_AND_STEPUP_AUTH"
  ELSE IF p >= 700 THEN "TEMP_RATE_LIMIT_MONITOR"
  ELSE "ALLOW"

\* C6 as stated: the suggested_action of every Alert is the value of its
\* probability band, BLOCK_IP_AND_REVOKE_TOKEN, THROTTLE_AND_STEPUP_AUTH,
\* TEMP_RATE_LIMIT_MONITOR or ALLOW.
C6_SpecBands ==
  \A k \in 1..Len(alerts) :
    alerts[k].suggested_action = BandAction(alerts[k].ml_probability)

\* C6 amended: every Alert holds the probability of its event, at least 0.80,
\* and the action BLOCK from 0.95, THROTTLE in [0.85,0.95), MONITOR in
\* [0.80,0.85); an event below 0.80 has no Alert and no action.
C6_DetectorBands ==
  /\ Len(alerts) = Len(alertSrc)
  /\ \A k \in 1..Len(alerts) :
       LET p == alerts[k].ml_probability
       IN /\ p = ProbOf(alertSrc[k])
          /\ p >= 800
          /\ alerts[k].suggested_action =
               (IF p >= 950 THEN "BLOCK"
                ELSE IF p >= 850 THEN "THROTTLE" ELSE "MONITOR")
  /\ \A j \in 1..Len(df6) : ProbOf(j) < 800 => AlertCount(j) = 0

C6_Witness ==
  /\ pc6 = "done"
  /\ \E j, k \in 1..Len(alerts) :
       /\ alerts[j].ml_probability = 950 /\ alerts[j].suggested_action = "BLOCK"
       /\ alerts[k].ml_probability = 800 /\ alerts[k].suggested_action = "MONITOR"
  /\ liveAlerts.rows = alerts

\* C7: the Alerts are in the order in which their events were processed,
\* whatever their clients, in the list and in the log written from it.
C7_ArrivalOrder ==
  /\ Len(alerts) = Len(alertSrc)
  /\ \A a, b \in 1..Len(alertSrc) : a < b => alertSrc[a] < alertSrc[b]
  /\ \A k \in 1..Len(alerts) :
       /\ alertSrc[k] \in 1..Len(df6)
       /\ alerts[k].client_ip = df6[alertSrc[k]].client_ip
       /\ alerts[k].timestamp = df6[alertSrc[k]].timestamp
  /\ (pc6 = "done" /\ alerts # <<>>) => liveAlerts.rows = alerts

C7_Witness ==
  /\ pc6 = "done"
  /\ Len(alerts) >= 2
  /\ alerts[1].client_ip # alerts[2].client_ip
  /\ alerts[1].timestamp > alerts[2].timestamp
  /\ liveAlerts.rows = alerts

\* C8: after a stop, once main() has returned, the alert log holds an Alert for
\* every event processed before the stop whose probability reached the
\* threshold.
C8_FlushOnStop ==
  (pc6 = "done" /\ stopped) =>
    \A j \in 1..Len(df6) :
      (Processed(j) /\ ProbOf(j) >= 800) =>
        /\ liveAlerts.exists
        /\ \E k \in 1..Len(liveAlerts.rows) :
             liveAlerts.rows[k] = Alert(df6[j], ProbOf(j))

C8_Witness ==
  /\ pc6 = "done"
  /\ stopped
  /\ idx <= Len(df6)
  /\ Len(alerts) >= 1
  /\ liveAlerts.rows = alerts
  /\ liveAlerts.rows # OldAlerts

\* C9 as stated: a stop takes effect between events only; it never interrupts
\* a classification in flight and never leaves an event announced without its
\* Alert recorded.
C9_Cooperative ==
  stopped =>
    /\ stoppedAt \in {"loop", "sleep"}
    /\ Len(console) = Len(alerts)

\* C9 amended: a stop may arrive anywhere in the loop; it ends the loop at once,
\* keeps every Alert recorded before it, lets no later event be processed, and
\* leaves at most the one event in flight announced without its Alert.
C9_AsyncStop ==
  stopped =>
    /\ pc6 \in {"save", "done", "killed"}
    /\ stoppedAt \in LoopPcs
    /\ alerts = alertsAtStop
    /\ \A k \in 1..Len(alertSrc) : alertSrc[k] <= idx
    /\ Len(console) = Len(alerts) + (IF stoppedAt = "append" THEN 1 ELSE 0)
    /\ \A j \in 1..Len(df6) :
         (Processed(j) /\ ProbOf(j) >= 800) => AlertCount(j) = 1

C9_Witness ==
  /\ stopped
  /\ pc6 = "done"
  /\ stoppedAt = "append"
  /\ Len(alerts) = 1
  /\ Len(console) = 2

\* the events of the enriched file the loop would go through
EventsOf(f) == DropNa(f.rows)

\* C10 as stated: without a classifier the detector still goes through every
\* event, each with probability 0.0 and MODEL_NOT_LOADED, and emits no Alert;
\* the facade answers every call with probability 0.0 and MODEL_NOT_LOADED.
C10_Degrades ==
  ~modelFile.exists =>
    /\ pc6 \in {"returned", "done"} =>
         /\ idx = Len(EventsOf(dataFile)) + 1
         /\ alerts = <<>>
    /\ resp.called =>
         /\ resp.body.attack_probability = 0
         /\ resp.body.suggested_action = "MODEL_NOT_LOADED"

\* C10 amended: without a classifier the facade answers every call with
\* probability 0.0 and MODEL_NOT_LOADED; the detector returns before its loop,
\* processes no event, emits no Alert and leaves the alert log as it was.
C10_NoModel ==
  ~modelFile.exists =>
    /\ pc6 \in {"start", "checkmodel", "returned", "killed"}
    /\ idx = 1 /\ df6 = <<>> /\ alerts = <<>> /\ console = <<>>
    /\ liveAlerts \in {[exists |-> FALSE, rows |-> <<>>],
                       [exists |-> TRUE, rows |-> OldAlerts]}
    /\ apiPc = "serving" => ~apiModel.loaded
    /\ resp.called =>
         /\ resp.body.attack_probability = 0
         /\ resp.body.predicted_attack = FALSE
         /\ resp.body.suggested_action = "MODEL_NOT_LOADED"

C10_Witness ==
  /\ ~modelFile.exists
  /\ pc6 = "returned"
  /\ Len(EventsOf(dataFile)) = 2
  /\ resp.called
  /\ resp.body.suggested_action = "MODEL_NOT_LOADED"

\* ---------------------------------------------------- C11: malformed events

\* an event none of whose feature columns is missing or unparsable
WellFormed(r) == \A c \in FeatureCols : r[c] # NaN /\ r[c] # Unparsable

\* an event of the file lacks a field: a value, or the whole column
Malformed(f, j) == ~WellFormed(f.rows[j]) \/ ~(DetectorHeader \subseteq f.cols)

\* C11: a malformed event (a missing or unparsable field) never aborts a run:
\* the run does not end in an uncaught exception, and a run that was not
\* stopped has gone through every well-formed event of the file, in order.
C11_SkipMalformed ==
  /\ pc6 # "crashed"
  /\ (pc6 \in {"save", "done"} /\ ~stopped) =>
       /\ df6 = SelectSeq(dataFile.rows, WellFormed)
       /\ idx = Len(df6) + 1

\* the run aborted at an unparsable value after an alert was raised, with a
\* well-formed event still to come; the alert log was not written
C11_AbortedMidStream ==
  /\ pc6 = "crashed"
  /\ DetectorHeader \subseteq dataFile.cols
  /\ Len(alerts) = 1
  /\ idx = 2
  /\ Len(df6) = 3
  /\ WellFormed(df6[3])
  /\ ~liveAlerts.exists

\* the run aborted on the file day4 writes, before the first event
C11_AbortedOnDay4File ==
  /\ pc6 = "crashed"
  /\ dataFile.cols = Day4Header
  /\ Len(dataFile.rows) = 1
  /\ WellFormed(dataFile.rows[1])
  /\ idx = 1

\* ------------------------------------------------------ C12: the alert log

IsPrefix(a, b) == Len(a) <= Len(b) /\ SubSeq(b, 1, Len(a)) = a

IsSuffix(a, b) == Len(a) <= Len(b) /\ SubSeq(b, Len(b) - Len(a) + 1, Len(b)) = a

\* C12 as stated: the alert log is append-only; no step removes, overwrites or
\* reorders a persisted Alert, so the log before a step is a prefix of the log
\* after it.
C12_AppendOnly ==
  [][liveAlerts.exists =>
       liveAlerts'.exists /\ IsPrefix(liveAlerts.rows, liveAlerts'.rows)]_vars

\* C12 amended: the alert log changes only in the save step of a run that has an
\* Alert, which puts that run's alerts (a prefix of them if the process is
\* killed while writing) in place of what the log held; a run without an Alert
\* leaves the log as it was, and /alerts answers with the last rows of the log
\* and leaves it as it was.
C12_Rewritten ==
  [][/\ liveAlerts' # liveAlerts =>
          /\ pc6 = "save" /\ alerts # <<>>
          /\ liveAlerts'.exists
          /\ pc6' = "done" => liveAlerts'.rows = alerts
          /\ pc6' = "killed" => IsPrefix(liveAlerts'.rows, alerts)
     /\ (pc6 = "save" /\ pc6' = "done" /\ alerts # <<>>) => liveAlerts'.rows = alerts
     /\ alertsResp' # alertsResp =>
          /\ liveAlerts' = liveAlerts
          /\ IsSuffix(alertsResp'.alerts, liveAlerts.rows)
          /\ alertsResp'.total_alerts = Len(alertsResp'.alerts)]_vars

\* /alerts served the Alert of an earlier run, and the run after it put its own
\* two alerts in its place
C12_Witness ==
  /\ pc6 = "done"
  /\ alertsResp.called
  /\ alertsResp.alerts = OldAlerts
  /\ Len(alerts) = 2
  /\ liveAlerts.rows = alerts
  /\ ~IsPrefix(OldAlerts, liveAlerts.rows)

\* --------------------------------------------------------- C14: determinism

\* C14: a run of the same event sequence through a freshly started detector,
\* with the same classifier and no stop request, yields the Alert sequence of
\* the first run, element by element.
C14_Replay ==
  (run > 1 /\ pc6 \in {"save", "done"} /\ ~stopped) =>
     /\ Len(alerts) = Len(firstAlerts)
     /\ \A k \in 1..Len(alerts) : alerts[k] = firstAlerts[k]

\* the second run has ended with the two alerts of the first
C14_Witness ==
  /\ run = 2
  /\ pc6 = "done"
  /\ ~stopped
  /\ Len(firstAlerts) = 2
  /\ alerts = firstAlerts
  /\ firstAlerts[1] # firstAlerts[2]

\* ------------------------------------------ C13: /detect and the detector

\* /detect has answered, with a model, for the feature vector of row j of df6
Scored(j) ==
  /\ resp.called
  /\ apiModel.loaded
  /\ j \in 1..Len(df6)
  /\ resp.req = Features(df6[j])

\* C13 as stated: /detect and the Stream Detector give the same
\* suggested_action to the same probability.
C13_SameAction ==
  \A k \in 1..Len(alerts) :
    (resp.called /\ apiModel.loaded
       /\ resp.body.attack_probability = alerts[k].ml_probability) =>
      resp.body.suggested_action = alerts[k].suggested_action

\* the name /detect gives to the band the detector calls a
FacadeName(a) ==
  CASE a = "BLOCK" -> "BLOCK_IP_AND_REVOKE_TOKEN"
    [] a = "THROTTLE" -> "THROTTLE_AND_STEPUP_AUTH"
    [] a = "MONITOR" -> "TEMP_RATE_LIMIT_MONITOR"

\* C13 amended: for the same event /detect and the detector compute the same
\* probability and cut it at the same 0.95 and 0.85, under different names:
\* BLOCK is BLOCK_IP_AND_REVOKE_TOKEN, THROTTLE is THROTTLE_AND_STEPUP_AUTH,
\* MONITOR is TEMP_RATE_LIMIT_MONITOR. Below 0.80 the detector records no
\* action, where /detect answers TEMP_RATE_LIMIT_MONITOR from 0.70 and ALLOW
\* under it.
C13_SameBands ==
  /\ \A k \in 1..Len(alerts) :
       Scored(alertSrc[k]) =>
         /\ resp.body.attack_probability = alerts[k].ml_probability
         /\ resp.body.suggested_action = FacadeName(alerts[k].suggested_action)
         /\ resp.body.suggested_action # alerts[k].suggested_action
  /\ \A j \in 1..Len(df6) :
       (Scored(j) /\ Processed(j) /\ AlertCount(j) = 0) =>
         /\ resp.body.attack_probability < 800
         /\ resp.body.suggested_action =
              (IF resp.body.attack_probability >= 700
                 THEN "TEMP_RATE_LIMIT_MONITOR" ELSE "ALLOW")

\* the detector has gone through two events, one at 0.85 with a THROTTLE Alert
\* and one at 0.799 without an Alert, and /detect has answered
\* THROTTLE_AND_STEPUP_AUTH for the first
C13_Witness ==
  /\ pc6 = "done"
  /\ Len(df6) = 2
  /\ Len(alerts) = 1
  /\ alerts[1].ml_probability = 850
  /\ alerts[1].suggested_action = "THROTTLE"
  /\ ProbOf(3 - alertSrc[1]) = 799
  /\ Scored(alertSrc[1])
  /\ resp.body.suggested_action = "THROTTLE_AND_STEPUP_AUTH"

Init4 ==
  /\ Idle6
  /\ IdleApi
  /\ rawExists \in BOOLEAN
  /\ rawLog \in (IF rawExists THEN SmallLogs \cup BulkLogs ELSE {<<>>})
  /\ df = <<>>
  /\ enriched = <<>>
  /\ pc4 = "start"

Next4 ==
  \/ Day4_CheckData
  \/ Day4_ReadCsv
  \/ Day4_MinuteBucket
  \/ Day4_Burst
  \/ Day4_Scan
  \/ Day4_AuthAbuse
  \/ Day4_RiskScore
  \/ Day4_Save

\* day4 alone
SpecDay4 == Init4 /\ [][Next4]_vars

\* day6 alone
SpecDay6 == Init6 /\ [][Next6]_vars

\* day6 and the facade, side by side
NextService == Next6 \/ NextApi

NextSink == Next6 \/ Api_Startup \/ Api_GetAlerts

SpecSink == InitSink /\ [][NextSink]_vars

NextReplay == Next6 \/ Day6_Replay

SpecReplay == InitReplay /\ [][NextReplay]_vars

SpecService == InitService /\ [][NextService]_vars

====
